---- MODULE Spec2Model ----
(***************************************************************************)
(* A model of breeze_chms_api/profile_helper.py: the ordered merge          *)
(* join_dicts, the profile normaliser ProfileHelper and the differ          *)
(* profile_compare / compare_profiles.                                      *)
(*                                                                          *)
(* Python values are modelled as records of one shape, so that Python's     *)
(* == is record equality and Python's truth test is Truthy:                 *)
(*   None        [t |-> "None"]                                             *)
(*   str         [t |-> "str",  s |-> sequence of atoms]  ('' is <<>>;      *)
(*               concatenation is \o on the atoms)                          *)
(*   list        [t |-> "list", l |-> sequence of values]                   *)
(*   dict        [t |-> "dict", d |-> sequence of [key, val] entries, in    *)
(*               insertion order, keys distinct]                            *)
(*   tuple       [t |-> "tuple", l |-> sequence of values]                  *)
(*   set         [t |-> "set",  e |-> set of values]                        *)
(*   a raised exception is [t |-> "raise", s |-> <<its name>>]              *)
(***************************************************************************)
EXTENDS Integers, Sequences, FiniteSets, TLC

VARIABLES
    pc,             \* position of the call being modelled
    values_right,   \* join_dicts: argument values_right
    values_left,    \* join_dicts: argument values_left
    dat_left,       \* join_dicts: OrderedDict dat_left (entries still queued)
    dat_right,      \* join_dicts: OrderedDict dat_right
    key_left,       \* join_dicts: current head of left
    val_left,
    key_right,      \* join_dicts: current head of right
    val_right,
    result,         \* join_dicts: the dict being built / the value returned
    branch,         \* join_dicts: the branch taken by the last loop iteration
    requeued,       \* join_dicts: the keys the defer branch has moved to the end
    profile_fields, \* ProfileHelper: the catalog it was constructed from
    helper,         \* ProfileHelper: id_to_field and id_to_name
    profile,        \* process_member_profile: its argument
    normalized,     \* process_member_profile: the dict returned or the exception
    prev_helper,    \* compare_profiles: arguments
    cur_helper,
    prev_people,
    cur_people,
    field_map,      \* profile_compare: argument field_map
    diffs,          \* profile_compare: argument diffs, the entries not yet visited
    fields_r,       \* profile_compare: the reference fields of the person visited
    fields_c,       \* profile_compare: the current fields of the person visited
    merged,         \* profile_compare: the person's merged fields not yet visited
    field_id,       \* profile_compare: the field visited
    val_r,          \* profile_compare: its reference value
    val_c,          \* profile_compare: its current value
    person_result,  \* profile_compare: the field tuples of the person visited
    report,         \* profile_compare: the list result / the value returned
    profile_list,   \* process_profiles: its argument
    processed,      \* process_profiles: the dict returned or the exception
    api,            \* BreezeApi: the object (dry_run and the catalog attributes)
    response,       \* BreezeApi: the response to the last request sent
    call,           \* BreezeApi: the method called last and its argument
    returned,       \* BreezeApi: what that call returned, or the exception
    requests,       \* the requests the profile-fields endpoint has received
    delivered       \* the catalog the first successful fetch left in the object

joinVars == <<values_right, values_left, dat_left, dat_right, key_left, val_left,
              key_right, val_right, result, branch, requeued>>
normVars == <<profile_fields, helper, profile, normalized>>
diffVars == <<prev_helper, cur_helper, prev_people, cur_people, field_map, diffs,
              fields_r, fields_c, merged, field_id, val_r, val_c, person_result,
              report>>

listVars == <<profile_list, processed>>

apiVars == <<api, response, call, returned, requests, delivered>>

vars == <<pc, joinVars, normVars, diffVars, listVars, apiVars>>

----------------------------------------------------------------------------
(* Python values *)

PyVal(tag, str, lst, dct, elems) ==
    [t |-> tag, s |-> str, l |-> lst, d |-> dct, e |-> elems]

None == PyVal("None", <<>>, <<>>, <<>>, {})
PyStr(atoms) == PyVal("str", atoms, <<>>, <<>>, {})
PyList(items) == PyVal("list", <<>>, items, <<>>, {})
PyTuple(items) == PyVal("tuple", <<>>, items, <<>>, {})
PyDict(entries) == PyVal("dict", <<>>, <<>>, entries, {})
PySet(elems) == PyVal("set", <<>>, <<>>, <<>>, elems)
PyRaise(name) == PyVal("raise", <<name>>, <<>>, <<>>, {})
PyBool(truth) == PyVal("bool", <<IF truth THEN "True" ELSE "False">>, <<>>, <<>>, {})

Str(word) == PyStr(<<word>>)
EmptyStr == PyStr(<<>>)
Entry(k, v) == [key |-> k, val |-> v]

IsNone(v) == v.t = "None"
IsRaise(v) == v.t = "raise"

\* Python's truth value of an object: None, False, '', [], {}, () and set() are
\* false.
Truthy(v) ==
    CASE v.t = "None" -> FALSE
      [] v.t = "str" -> v.s # <<>>
      [] v.t = "list" -> v.l # <<>>
      [] v.t = "tuple" -> v.l # <<>>
      [] v.t = "dict" -> v.d # <<>>
      [] v.t = "set" -> v.e # {}
      [] v.t = "bool" -> v.s = <<"True">>
      [] OTHER -> TRUE

\* str + str
Concat(a, b) == PyStr(a.s \o b.s)

\* str(k) inside an f-string
FormatKey(k) == IF IsNone(k) THEN <<"None">> ELSE k.s

----------------------------------------------------------------------------
(* dict and OrderedDict operations, on the sequence of entries *)

Range(seq) == {seq[i] : i \in 1..Len(seq)}
KeysOf(entries) == {entries[i].key : i \in 1..Len(entries)}
KeySeq(entries) == [i \in 1..Len(entries) |-> entries[i].key]
HasKey(entries, k) == \E i \in 1..Len(entries) : entries[i].key = k
IndexOf(entries, k) == CHOOSE i \in 1..Len(entries) : entries[i].key = k

\* dict.get(k, default)
DictGet(entries, k, default) ==
    IF HasKey(entries, k) THEN entries[IndexOf(entries, k)].val ELSE default

\* d[k] = v : replaces the value in place, or appends a new entry
DictSet(entries, k, v) ==
    IF HasKey(entries, k)
    THEN [entries EXCEPT ![IndexOf(entries, k)] = Entry(k, v)]
    ELSE Append(entries, Entry(k, v))

\* the entries left by d.pop(k), k a key of d
DictRemove(entries, k) ==
    LET i == IndexOf(entries, k)
    IN  SubSeq(entries, 1, i - 1) \o SubSeq(entries, i + 1, Len(entries))

----------------------------------------------------------------------------
(* join_dicts *)

\* _pop_next: popitem(last=False), or (None, None) when the dict is empty
_pop_next(dct) ==
    IF dct = <<>>
    THEN [key |-> None, val |-> None, rest |-> <<>>]
    ELSE [key |-> Head(dct).key, val |-> Head(dct).val, rest |-> Tail(dct)]

\* the local variables of join_dicts, as one record
LoopState(dl, dr, kl, vl, kr, vr, res) ==
    [dat_left |-> dl, dat_right |-> dr, key_left |-> kl, val_left |-> vl,
     key_right |-> kr, val_right |-> vr, result |-> res]

\* OrderedDict(values if values else {})
OrderedDictOf(values) == IF Truthy(values) THEN values.d ELSE <<>>

\* lines 331-335: the state on entry to the loop
JoinEntry(vright, vleft) ==
    LET l == _pop_next(OrderedDictOf(vleft))
        r == _pop_next(OrderedDictOf(vright))
    IN  LoopState(l.rest, r.rest, l.key, l.val, r.key, r.val, <<>>)

\* line 337: while key_left or key_right
LoopCond(st) == Truthy(st.key_left) \/ Truthy(st.key_right)

\* line 338 / 343 / 347 / 355: which branch an iteration takes
IsMatch(st) == st.key_left = st.key_right
IsCross(st) == ~IsMatch(st) /\ HasKey(st.dat_right, st.key_left)
IsDefer(st) == ~IsMatch(st) /\ ~IsCross(st) /\ HasKey(st.dat_left, st.key_right)
IsEmit(st) == ~IsMatch(st) /\ ~IsCross(st) /\ ~IsDefer(st)

\* lines 340-342: key exists in both, in order
MatchStep(st) ==
    LET l == _pop_next(st.dat_left)
        r == _pop_next(st.dat_right)
    IN  LoopState(l.rest, r.rest, l.key, l.val, r.key, r.val,
                  DictSet(st.result, st.key_right,
                          PyTuple(<<st.val_right, st.val_left>>)))

\* CrossStep with the bug of emitting left's head alone: the entry is pulled out
\* of right but its value is not put in the pair
CrossStepDropsRight(st) ==
    LET l == _pop_next(st.dat_left)
    IN  LoopState(l.rest, DictRemove(st.dat_right, st.key_left), l.key, l.val,
                  st.key_right, st.val_right,
                  DictSet(st.result, st.key_left, PyTuple(<<None, st.val_left>>)))

\* a mutant of CrossStep: right is advanced as well, as in the match branch
CrossStepAdvancesBoth(st) ==
    LET pulled == DictGet(st.dat_right, st.key_left, None)
        l == _pop_next(st.dat_left)
        r == _pop_next(DictRemove(st.dat_right, st.key_left))
    IN  LoopState(l.rest, r.rest, l.key, l.val, r.key, r.val,
                  DictSet(st.result, st.key_left, PyTuple(<<pulled, st.val_left>>)))

\* lines 345-346: left's head is later in right: pull it out and emit the pair
CrossStep(st) ==
    LET pulled == DictGet(st.dat_right, st.key_left, None)
        l == _pop_next(st.dat_left)
    IN  LoopState(l.rest, DictRemove(st.dat_right, st.key_left), l.key, l.val,
                  st.key_right, st.val_right,
                  DictSet(st.result, st.key_left, PyTuple(<<pulled, st.val_left>>)))

\* a mutant of DeferStep: right's head is emitted alone as well as requeued
DeferStepEmitsRight(st) ==
    LET r == _pop_next(DictSet(st.dat_right, st.key_right, st.val_right))
        l == _pop_next(st.dat_left)
    IN  LoopState(l.rest, r.rest, l.key, l.val, r.key, r.val,
                  DictSet(DictSet(st.result, st.key_right,
                                  PyTuple(<<st.val_right, None>>)),
                          st.key_left, PyTuple(<<None, st.val_left>>)))

\* a mutant of DeferStep: right's head is moved to the end of right, and left's
\* head stays where it is
DeferStepKeepsLeft(st) ==
    LET r == _pop_next(DictSet(st.dat_right, st.key_right, st.val_right))
    IN  LoopState(st.dat_left, r.rest, st.key_left, st.val_left, r.key, r.val,
                  st.result)

\* lines 350-354: right's head is later in left: move it to the end of right,
\* and emit left's head alone
DeferStep(st) ==
    LET r == _pop_next(DictSet(st.dat_right, st.key_right, st.val_right))
        l == _pop_next(st.dat_left)
    IN  LoopState(l.rest, r.rest, l.key, l.val, r.key, r.val,
                  DictSet(st.result, st.key_left, PyTuple(<<None, st.val_left>>)))

\* lines 358-360: if key_right: emit right's head alone
EmitRight(st) ==
    IF Truthy(st.key_right)
    THEN LET r == _pop_next(st.dat_right)
         IN  [st EXCEPT !.result = DictSet(st.result, st.key_right,
                                           PyTuple(<<st.val_right, None>>)),
                        !.key_right = r.key, !.val_right = r.val,
                        !.dat_right = r.rest]
    ELSE st

\* lines 361-363: if key_left: emit left's head alone
EmitLeft(st) ==
    IF Truthy(st.key_left)
    THEN LET l == _pop_next(st.dat_left)
         IN  [st EXCEPT !.result = DictSet(st.result, st.key_left,
                                           PyTuple(<<None, st.val_left>>)),
                        !.key_left = l.key, !.val_left = l.val,
                        !.dat_left = l.rest]
    ELSE st

\* EmitStep with the two emissions in the other order
EmitStepLeftFirst(st) == EmitRight(EmitLeft(st))

\* lines 355-363: neither head is in the other dict
EmitStep(st) == EmitLeft(EmitRight(st))

\* one iteration of the loop body, lines 338-363
LoopBody(st) ==
    CASE IsMatch(st) -> MatchStep(st)
      [] IsCross(st) -> CrossStep(st)
      [] IsDefer(st) -> DeferStep(st)
      [] OTHER -> EmitStep(st)

RECURSIVE JoinLoop(_)
\* lines 337-365: run the loop to its end and return result
JoinLoop(st) == IF LoopCond(st) THEN JoinLoop(LoopBody(st)) ELSE st.result

\* join_dicts(values_right, values_left), as a function of its arguments
join_dicts(vright, vleft) == PyDict(JoinLoop(JoinEntry(vright, vleft)))

----------------------------------------------------------------------------
(* The inputs join_dicts is run on *)

\* longest key list of an enumerated input mapping
MaxLen == 3

\* The keys of the enumerated mappings: a person id or a field id is read with
\* .get('id') / .get('field_id'), so it is a str, possibly '', or None.
JoinKeys == {None, EmptyStr, Str("a"), Str("b"), Str("c")}

IsInjective(seq) == \A i, j \in 1..Len(seq) : seq[i] = seq[j] => i = j

KeyLists ==
    UNION {{ks \in [1..n -> JoinKeys] : IsInjective(ks)} : n \in 0..MaxLen}

\* tests' make_dict: {k: f'{k}: {val}' for k in key_list}
make_dict(key_list, val) ==
    PyDict([i \in 1..Len(key_list) |->
               Entry(key_list[i], PyStr(FormatKey(key_list[i]) \o <<": ", val>>))])

StrList(words) == [i \in 1..Len(words) |-> Str(words[i])]

\* test_merge's two key lists and the order it expects
ExampleRightKeys == StrList(<<"a", "l", "x", "c", "d", "e", "b", "z", "q">>)
ExampleLeftKeys == StrList(<<"a", "b", "c", "e", "f", "x", "q">>)
ExampleOrder == StrList(<<"a", "b", "c", "e", "l", "f", "x", "q", "d", "z">>)

\* make_dict's mapping with None as the value of its first key
NoneFirst(key_list, val) ==
    PyDict([i \in 1..Len(key_list) |->
               IF i = 1 THEN Entry(key_list[i], None) ELSE make_dict(key_list, val).d[i]])

\* the key lists of the mappings that hold a None value
NoneKeyLists == {<<Str("a")>>, <<Str("b")>>, <<Str("a"), Str("b")>>, <<Str("b"), Str("a")>>}

\* pairs of mappings of which one or both hold a None value
NoneInputs ==
    {<<NoneFirst(rs, "right"), NoneFirst(ls, "left")>> : rs \in NoneKeyLists, ls \in NoneKeyLists}
    \cup {<<NoneFirst(rs, "right"), make_dict(ls, "left")>> :
              rs \in NoneKeyLists, ls \in NoneKeyLists \cup {<<>>}}
    \cup {<<make_dict(rs, "right"), NoneFirst(ls, "left")>> :
              rs \in NoneKeyLists \cup {<<>>}, ls \in NoneKeyLists}

\* the (values_right, values_left) pairs join_dicts is called with: every pair of
\* enumerated mappings, None in place of a mapping, the test's example, and the
\* pairs with None values
JoinInputs ==
    LET rights == {make_dict(ks, "right") : ks \in KeyLists} \cup {None}
        lefts == {make_dict(ks, "left") : ks \in KeyLists} \cup {None}
    IN  (rights \X lefts)
        \cup {<<make_dict(ExampleRightKeys, "right"), make_dict(ExampleLeftKeys, "left")>>}
        \cup NoneInputs

----------------------------------------------------------------------------
(* join_dicts as a state machine: one action per branch of the loop *)

CurrentLoopState ==
    LoopState(dat_left, dat_right, key_left, val_left, key_right, val_right, result)

\* a mutant of InputAfter: the queue is the argument itself, not a copy of it
InputAliased(values, queue) == IF values.t = "dict" THEN PyDict(queue) ELSE values

\* lines 331-332: dat_left and dat_right are new OrderedDicts built from the
\* arguments, so what the loop pops from and adds to them does not reach the
\* arguments
InputAfter(values, queue) == values

SetLoopState(st, taken) ==
    /\ dat_left' = st.dat_left
    /\ dat_right' = st.dat_right
    /\ key_left' = st.key_left
    /\ val_left' = st.val_left
    /\ key_right' = st.key_right
    /\ val_right' = st.val_right
    /\ result' = st.result
    /\ branch' = taken
    /\ requeued' = IF taken = "defer" THEN requeued \cup {key_right} ELSE requeued
    /\ values_right' = InputAfter(values_right, st.dat_right)
    /\ values_left' = InputAfter(values_left, st.dat_left)
    /\ UNCHANGED <<normVars, diffVars, listVars, apiVars>>

\* the variables of the calls a specification does not make
JoinIdle ==
    /\ values_right = None /\ values_left = None
    /\ dat_left = <<>> /\ dat_right = <<>>
    /\ key_left = None /\ val_left = None
    /\ key_right = None /\ val_right = None
    /\ result = <<>>
    /\ branch = "none"
    /\ requeued = {}

NormIdle ==
    /\ profile_fields = None /\ helper = None
    /\ profile = None /\ normalized = None

ListIdle ==
    /\ profile_list = None /\ processed = None

\* the BreezeApi object does not exist
ApiIdle ==
    /\ api = None /\ response = None /\ call = None
    /\ returned = None /\ requests = 0 /\ delivered = None

DiffIdle ==
    /\ prev_helper = None /\ cur_helper = None
    /\ prev_people = None /\ cur_people = None
    /\ field_map = None /\ diffs = None
    /\ fields_r = None /\ fields_c = None
    /\ merged = None /\ field_id = None
    /\ val_r = None /\ val_c = None
    /\ person_result = <<>> /\ report = <<>>

JoinInit ==
    /\ pc = "start"
    /\ \E input \in JoinInputs :
           values_right = input[1] /\ values_left = input[2]
    /\ dat_left = <<>> /\ dat_right = <<>>
    /\ key_left = None /\ val_left = None
    /\ key_right = None /\ val_right = None
    /\ result = <<>>
    /\ branch = "none"
    /\ requeued = {}
    /\ NormIdle
    /\ DiffIdle
    /\ ListIdle
    /\ ApiIdle

\* lines 331-335
JoinBegin ==
    /\ pc = "start"
    /\ pc' = "loop"
    /\ SetLoopState(JoinEntry(values_right, values_left), "none")

\* lines 338-342
HeadsMatch ==
    /\ pc = "loop" /\ LoopCond(CurrentLoopState) /\ IsMatch(CurrentLoopState)
    /\ pc' = "loop"
    /\ SetLoopState(MatchStep(CurrentLoopState), "match")

\* lines 343-346
CrossPull ==
    /\ pc = "loop" /\ LoopCond(CurrentLoopState) /\ IsCross(CurrentLoopState)
    /\ pc' = "loop"
    /\ SetLoopState(CrossStep(CurrentLoopState), "cross")

\* lines 347-354
DeferRight ==
    /\ pc = "loop" /\ LoopCond(CurrentLoopState) /\ IsDefer(CurrentLoopState)
    /\ pc' = "loop"
    /\ SetLoopState(DeferStep(CurrentLoopState), "defer")

\* lines 355-363
EmitBoth ==
    /\ pc = "loop" /\ LoopCond(CurrentLoopState) /\ IsEmit(CurrentLoopState)
    /\ pc' = "loop"
    /\ SetLoopState(EmitStep(CurrentLoopState), "emit")

\* lines 337 and 365: the loop condition is false, return result
JoinReturn ==
    /\ pc = "loop" /\ ~LoopCond(CurrentLoopState)
    /\ pc' = "done"
    /\ UNCHANGED <<joinVars, normVars, diffVars, listVars, apiVars>>

JoinNext ==
    \/ JoinBegin
    \/ HeadsMatch
    \/ CrossPull
    \/ DeferRight
    \/ EmitBoth
    \/ JoinReturn

Spec == JoinInit /\ [][JoinNext]_vars

\* a call of join_dicts runs on until it returns
FairSpec == JoinInit /\ [][JoinNext]_vars /\ WF_vars(JoinNext)

----------------------------------------------------------------------------
(* str and list helpers *)

\* d.get(name, default) on a dict whose keys are one-atom strings
Get(dct, name, default) == DictGet(dct.d, Str(name), default)

\* the items of a list that are true
FilterTruthy(items) == SelectSeq(items, Truthy)

\* sep.join(items), items a sequence of str
RECURSIVE Join(_, _)
Join(sep, items) ==
    IF items = <<>> THEN EmptyStr
    ELSE IF Len(items) = 1 THEN Head(items)
    ELSE PyStr(Head(items).s \o <<sep>> \o Join(sep, Tail(items)).s)

\* the atoms of a str up to its first '<br />' (all of them if there is none)
RECURSIVE UpToBreak(_)
UpToBreak(atoms) ==
    IF atoms = <<>> \/ Head(atoms) = "<br />" THEN <<>>
    ELSE <<Head(atoms)>> \o UpToBreak(Tail(atoms))

RECURSIVE SplitBreak(_)
\* the first piece, then the pieces of what follows its marker
SplitAfter(atoms, piece) ==
    IF Len(piece) = Len(atoms) THEN <<PyStr(piece)>>
    ELSE <<PyStr(piece)>> \o SplitBreak(SubSeq(atoms, Len(piece) + 2, Len(atoms)))

\* part.split('<br />'): the list of the pieces between the markers
SplitBreak(atoms) == SplitAfter(atoms, UpToBreak(atoms))

\* text[6:] of a field_type: the label 'email_' is the one atom of six characters
StripEmailPrefix(text) == IF text.s = <<>> THEN text ELSE PyStr(Tail(text.s))

----------------------------------------------------------------------------
(* The extractors *)

\* lines 18-19: if nick and nick != first: first += f' ({nick})'
WithNick(first, nick) ==
    IF Truthy(nick) /\ nick # first
    THEN PyStr(first.s \o <<" (">> \o nick.s \o <<")">>)
    ELSE first

\* lines 20-21: if middle: first += f' {middle}'
WithMiddle(first, middle) ==
    IF Truthy(middle) THEN PyStr(first.s \o <<" ">> \o middle.s) ELSE first

\* lines 22-24: if first: full_name += f', {first}'
WithFirst(full_name, first) ==
    IF Truthy(first) THEN PyStr(full_name.s \o <<", ">> \o first.s) ELSE full_name

\* _extract_name (lines 6-24); profile.get on None raises AttributeError
_extract_name(prof) ==
    IF prof.t # "dict" THEN PyRaise("AttributeError")
    ELSE WithFirst(Get(prof, "last_name", EmptyStr),
                   WithMiddle(WithNick(Get(prof, "first_name", EmptyStr),
                                       Get(prof, "nick_name", EmptyStr)),
                              Get(prof, "middle_name", EmptyStr)))

\* _delist (lines 27-36)
_delist(val) ==
    IF ~Truthy(val) THEN None
    ELSE IF Len(val.l) = 1 THEN val.l[1] ELSE val

\* an extractor object: its class and the two fields of _BaseExtractor
Extractor(cls, name, fid) == [cls |-> cls, field_name |-> name, field_id |-> fid]

\* return [value] if value else []
ListIfTruthy(value) == PyList(IF Truthy(value) THEN <<value>> ELSE <<>>)

\* _MultiValueExtractor._extract_entry (lines 150-152)
MultiValueEntry(entry) == ListIfTruthy(Get(entry, "name", None))

\* if flag == '1': text += mark
Marked(text, flag, mark) == IF flag = Str("1") THEN PyStr(text.s \o <<mark>>) ELSE text

\* if label != 'primary': text = f'{label}:{text}'
Labelled(label, text) ==
    IF label # Str("primary") THEN PyStr(label.s \o <<":">> \o text.s) ELSE text

\* lines 157-168, from the three values read out of the entry
EmailOf(email, is_private, field_type) ==
    IF ~Truthy(email) THEN PyList(<<>>)
    ELSE IF field_type.t # "str" THEN PyRaise("TypeError")
    ELSE PyList(<<Labelled(StripEmailPrefix(field_type),
                           Marked(email, is_private, "(private)"))>>)

\* _EmailExtractor._extract_entry (lines 155-168)
EmailEntry(entry) ==
    EmailOf(Get(entry, "address", None), Get(entry, "is_private", EmptyStr),
            Get(entry, "field_type", None))

\* a mutant of PhoneOf: the do-not-text marker is written only on a private number
PhoneOfNoTextWhenPrivate(phone, pt, is_private, do_not_text) ==
    IF Truthy(pt) /\ Truthy(phone)
    THEN PyList(<<Labelled(pt, Marked(phone, is_private,
                                      IF do_not_text = Str("1") THEN "(private)(no text)"
                                      ELSE "(private)"))>>)
    ELSE PyList(<<>>)

\* lines 177-186, from the four values read out of the entry
PhoneOf(phone, pt, is_private, do_not_text) ==
    IF Truthy(pt) /\ Truthy(phone)
    THEN PyList(<<Labelled(pt, Marked(Marked(phone, is_private, "(private)"),
                                      do_not_text, "(no text)"))>>)
    ELSE PyList(<<>>)

\* _PhoneExtractor._extract_entry (lines 174-186)
PhoneEntry(entry) ==
    PhoneOf(Get(entry, "phone_number", None), Get(entry, "phone_type", None),
            Get(entry, "is_private", EmptyStr), Get(entry, "do_not_text", EmptyStr))

\* lines 205-207, from the name and the role
FamilyOf(name, role) ==
    IF IsRaise(name) THEN name
    ELSE IF Truthy(role)
    THEN PyList(<<PyStr(name.s \o <<" (">> \o role.s \o <<")">>)>>)
    ELSE PyList(<<name>>)

\* _FamilyExtractor._extract_entry (lines 202-207)
FamilyEntry(entry) ==
    FamilyOf(_extract_name(Get(entry, "details", None)), Get(entry, "role_name", None))

\* for part in [street_address, street_address_2]: if part: fields += part.split(..)
StreetLines(part) == IF Truthy(part) THEN SplitBreak(part.s) ELSE <<>>

\* _AddressExtractor._extract_entry (lines 216-227)
AddressEntry(entry) ==
    IF ~Truthy(entry) THEN PyList(<<>>)
    ELSE PyList(<<Join(";", FilterTruthy(
                    StreetLines(Get(entry, "street_address", None))
                    \o StreetLines(Get(entry, "street_address_2", None))
                    \o <<Join(" ", FilterTruthy(<<Get(entry, "city", None),
                                                  Get(entry, "state", None),
                                                  Get(entry, "zip", None)>>))>>))>>)

\* the _extract_entry of each subclass of _MultiValueExtractor; entry.get on
\* something that is no dict raises AttributeError
_extract_entry(cls, entry) ==
    IF entry.t # "dict" /\ ~(cls = "_AddressExtractor" /\ ~Truthy(entry))
    THEN PyRaise("AttributeError")
    ELSE CASE cls = "_EmailExtractor" -> EmailEntry(entry)
           [] cls = "_PhoneExtractor" -> PhoneEntry(entry)
           [] cls = "_FamilyExtractor" -> FamilyEntry(entry)
           [] cls = "_AddressExtractor" -> AddressEntry(entry)
           [] OTHER -> MultiValueEntry(entry)

\* return_list += more, unless one of the two is an exception
Extend(return_list, more) ==
    IF IsRaise(more) THEN more
    ELSE IF IsRaise(return_list) THEN return_list
    ELSE PyList(more.l \o return_list.l)

\* the loop of _MultiValueExtractor._process_field_value (lines 141-143): the
\* concatenated entries, or the exception one of them raised
RECURSIVE ExtractEntries(_, _)
ExtractEntries(cls, values) ==
    IF values = <<>> THEN PyList(<<>>)
    ELSE Extend(ExtractEntries(cls, Tail(values)), _extract_entry(cls, Head(values)))

\* return return_list if return_list else None (line 148)
ListOrNone(return_list) ==
    IF IsRaise(return_list) \/ Truthy(return_list) THEN return_list ELSE None

\* _process_field_value of each class (lines 95-97, 110-113, 135-148)
_process_field_value(cls, value) ==
    CASE cls = "_SimpleExtractor" -> PyList(<<value>>)
      [] cls = "_SingleValueExtractor" ->
            IF value.t # "dict" THEN PyRaise("AttributeError")
            ELSE ListOrNone(ListIfTruthy(Get(value, "name", None)))
      [] OTHER ->
            IF value.t # "list" THEN PyRaise("AttributeError")
            ELSE ListOrNone(ExtractEntries(cls, value.l))

\* line 74: self._process_field_value(value) if value else None
ProcessIfTruthy(cls, value) ==
    IF Truthy(value) THEN _process_field_value(cls, value) ELSE None

\* _Extractor._value_from_details (lines 72-74); details.get on None raises
_value_from_details(extractor, details) ==
    IF details.t # "dict" THEN PyRaise("AttributeError")
    ELSE ProcessIfTruthy(extractor.cls, DictGet(details.d, extractor.field_id, None))

\* _delist(found), unless found is an exception on its way out
DelistOrRaise(found) == IF IsRaise(found) THEN found ELSE _delist(found)

\* get_value of each extractor class (lines 62-69, 85-87, 192-199)
get_value(extractor, prof) ==
    IF extractor.cls = "_NameExtractor" THEN _extract_name(prof)
    ELSE DelistOrRaise(_value_from_details(
             extractor,
             IF extractor.cls = "_FamilyExtractor" THEN prof
             ELSE Get(prof, "details", None)))

\* the registry _extractors (lines 230-242): the class for a field_type, or
\* "none" where .get returns None
_extractors(field_type) ==
    CASE field_type \in {Str("grade"), Str("single_line"), Str("birthdate"),
                         Str("date"), Str("notes")} -> "_SimpleExtractor"
      [] field_type \in {Str("multiple_choice"), Str("dropdown")} ->
            "_SingleValueExtractor"
      [] field_type = Str("checkbox") -> "_MultiValueExtractor"
      [] field_type = Str("email") -> "_EmailExtractor"
      [] field_type = Str("phone") -> "_PhoneExtractor"
      [] field_type = Str("address") -> "_AddressExtractor"
      [] OTHER -> "none"

----------------------------------------------------------------------------
(* ProfileHelper *)

\* a mutant of AddField: the field is indexed whether or not its field_type has
\* an extractor
AddFieldUnguarded(id_to_field, cls, field_name, fid) ==
    DictSet(id_to_field, fid, Extractor(cls, field_name, fid))

\* lines 260-264: if extractor: self.id_to_field[field_id] = extractor(..)
AddField(id_to_field, cls, field_name, fid) ==
    IF cls # "none"
    THEN DictSet(id_to_field, fid, Extractor(cls, field_name, fid))
    ELSE id_to_field

\* line 263: f"{section_name}:{field_def.get('name')}"
QualifiedName(section_name, name) ==
    PyStr(FormatKey(section_name) \o <<":">> \o FormatKey(name))

\* lines 257-264: the fields of one section added to id_to_field
RECURSIVE AddFields(_, _, _)
AddFields(id_to_field, section_name, fields) ==
    IF fields = <<>> THEN id_to_field
    ELSE AddFields(AddField(id_to_field,
                            _extractors(Get(Head(fields), "field_type", None)),
                            QualifiedName(section_name, Get(Head(fields), "name", None)),
                            Get(Head(fields), "field_id", None)),
                   section_name, Tail(fields))

\* lines 255-264: every section of the catalog
RECURSIVE AddSections(_, _)
AddSections(id_to_field, sections) ==
    IF sections = <<>> THEN id_to_field
    ELSE AddSections(AddFields(id_to_field, Get(Head(sections), "name", None),
                               Get(Head(sections), "fields", None).l),
                     Tail(sections))

\* line 266: {field_id: e.name for field_id, e in self.id_to_field.items()}
NamesOf(id_to_field) ==
    [i \in 1..Len(id_to_field) |->
        Entry(id_to_field[i].key, id_to_field[i].val.field_name)]

\* the helper object, from its id_to_field
HelperOf(id_to_field) == [id_to_field |-> id_to_field, id_to_name |-> NamesOf(id_to_field)]

\* ProfileHelper.__init__ (lines 245-266)
ProfileHelper(catalog) ==
    HelperOf(DictSet(AddSections(<<Entry(Str("name"),
                                         Extractor("_NameExtractor", Str("Name"),
                                                   Str("name")))>>,
                                 catalog.l),
                     Str("family"),
                     Extractor("_FamilyExtractor", Str("family"), Str("family"))))

\* ProfileHelper.get_field_id_to_name (lines 298-303)
get_field_id_to_name(hlp) == PyDict(hlp.id_to_name)

RECURSIVE ExtractFields(_, _, _)
\* lines 282-283: if value: result[field_id] = value, then the next extractor
StoreValue(res, extractors, prof, value) ==
    IF IsRaise(value) THEN value
    ELSE ExtractFields(IF Truthy(value)
                       THEN DictSet(res, Head(extractors).key, value)
                       ELSE res,
                       Tail(extractors), prof)

\* lines 280-283: the loop over id_to_field, from the result built so far
ExtractFields(res, extractors, prof) ==
    IF extractors = <<>> THEN PyDict(res)
    ELSE StoreValue(res, extractors, prof, get_value(Head(extractors).val, prof))

\* a mutant of ResultFrom: 'name' is stored by the loop only, if it has a value
ResultFromLoopOnly(name, hlp, prof) ==
    IF IsRaise(name) THEN name
    ELSE ExtractFields(<<>>, hlp.id_to_field, prof)

\* line 279 and the loop, from the name extracted
ResultFrom(name, hlp, prof) ==
    IF IsRaise(name) THEN name
    ELSE ExtractFields(<<Entry(Str("name"), name)>>, hlp.id_to_field, prof)

\* ProfileHelper.process_member_profile (lines 268-284): the dict returned,
\* or the exception raised
process_member_profile(hlp, prof) == ResultFrom(_extract_name(prof), hlp, prof)

RECURSIVE ProcessInto(_, _, _)
\* a mutant of StoreProfile: the entry is keyed by the person's name
StoreProfileByName(res, hlp, people, one) ==
    IF IsRaise(one) THEN one
    ELSE ProcessInto(DictSet(res, Get(one, "name", None), one), hlp, Tail(people))

\* one item of the comprehension: the profile's id mapped to its processed form
StoreProfile(res, hlp, people, one) ==
    IF IsRaise(one) THEN one
    ELSE ProcessInto(DictSet(res, Get(Head(people), "id", None), one),
                     hlp, Tail(people))

\* the dict comprehension of process_profiles, a later profile with the same id
\* replacing the value of an earlier one
ProcessInto(res, hlp, people) ==
    IF people = <<>> THEN PyDict(res)
    ELSE StoreProfile(res, hlp, people,
                      process_member_profile(hlp, Head(people)))

\* ProfileHelper.process_profiles (lines 286-296)
process_profiles(hlp, people) == ProcessInto(<<>>, hlp, people.l)

----------------------------------------------------------------------------
(* The catalogs and profiles the normaliser is run on *)

\* most fields in an enumerated catalog
MaxFields == 2
\* most entries in the 'details' of an enumerated profile
MaxDetails == 1

\* a dict literal with str keys, from <<name, value>> pairs
MkDict(pairs) == PyDict([i \in 1..Len(pairs) |-> Entry(Str(pairs[i][1]), pairs[i][2])])

\* the members of a set of indices, in increasing order
RECURSIVE Ascending(_)
Ascending(indices) ==
    IF indices = {} THEN <<>>
    ELSE LET least == CHOOSE i \in indices : \A j \in indices : i <= j
         IN  <<least>> \o Ascending(indices \ {least})

\* the sub-lists of seq with at most n items
SubLists(seq, n) ==
    {[i \in 1..Len(Ascending(chosen)) |-> seq[Ascending(chosen)[i]]] :
        chosen \in {c \in SUBSET (1..Len(seq)) : Cardinality(c) <= n}}

\* a field definition of a catalog, as get_profile_fields returns it
FieldDef(fid, name, field_type) ==
    MkDict(<< <<"field_id", Str(fid)>>, <<"name", Str(name)>>,
              <<"field_type", Str(field_type)>> >>)

\* one field per extractor class, and one of a type without extractor
FieldDefs ==
    << FieldDef("101", "School", "single_line"),
       FieldDef("102", "Status", "dropdown"),
       FieldDef("103", "Gifts", "checkbox"),
       FieldDef("104", "Email", "email"),
       FieldDef("105", "Phone", "phone"),
       FieldDef("106", "Address", "address"),
       FieldDef("107", "Photo", "file") >>

Section(name, fields) == MkDict(<< <<"name", Str(name)>>, <<"fields", PyList(fields)>> >>)

\* the catalogs: one section holding up to MaxFields of the fields
Catalogs == {PyList(<<Section("Main", fields)>>) : fields \in SubLists(FieldDefs, MaxFields)}

Choice(value, name) == MkDict(<< <<"value", Str(value)>>, <<"name", name>> >>)
PhoneNumber == PyStr(<<"(333) 543-2100">>)

\* what a profile's details can hold for each field of FieldDefs
RawValues(i) ==
    CASE i = 1 -> {Str("Wilder"), EmptyStr}
      [] i = 2 -> {Choice("211", Str("Include")), Choice("0", None)}
      [] i = 3 -> {PyList(<<Choice("null", None)>>),
                   PyList(<<Choice("null", None), Choice("78", Str("Coffee Host"))>>),
                   PyList(<<Choice("78", Str("Coffee Host")), Choice("145", Str("Worship"))>>)}
      [] i = 4 -> {PyList(<<MkDict(<< <<"address", Str("a@x.org")>>, <<"is_private", Str("1")>>,
                                      <<"field_type", PyStr(<<"email_", "primary">>)>> >>)>>),
                   PyList(<<MkDict(<< <<"address", Str("a@x.org")>>,
                                      <<"field_type", PyStr(<<"email_", "work">>)>> >>)>>),
                   PyList(<<MkDict(<< <<"address", EmptyStr>>,
                                      <<"field_type", PyStr(<<"email_", "primary">>)>> >>)>>)}
      [] i = 5 -> {PyList(<<MkDict(<< <<"phone_number", PhoneNumber>>,
                                      <<"phone_type", Str("primary")>> >>)>>),
                   PyList(<<MkDict(<< <<"phone_number", PhoneNumber>>,
                                      <<"phone_type", Str("mobile")>>,
                                      <<"is_private", Str("1")>>,
                                      <<"do_not_text", Str("1")>> >>)>>),
                   PyList(<<MkDict(<< <<"phone_type", Str("mobile")>> >>)>>)}
      [] i = 6 -> {PyList(<<MkDict(<< <<"street_address",
                                        PyStr(<<"205 S Pleasant St", "<br />", "Apt 2">>)>>,
                                      <<"city", Str("Los Angeles")>>,
                                      <<"state", Str("CA")>>, <<"zip", Str("12456")>> >>)>>),
                   PyList(<<MkDict(<< <<"city", Str("Los Angeles")>> >>)>>),
                   PyList(<<MkDict(<< <<"street_address_2", EmptyStr>> >>)>>)}
      [] OTHER -> {Str("photo.png")}

AllRawValues == UNION {RawValues(i) : i \in 1..Len(FieldDefs)}

\* the 'details' dicts with entries for the fields chosen
DetailsFor(chosen) ==
    {PyDict([n \in 1..Len(Ascending(chosen)) |->
                Entry(Get(FieldDefs[Ascending(chosen)[n]], "field_id", None),
                      raw[Ascending(chosen)[n]])]) :
        raw \in {f \in [chosen -> AllRawValues] : \A i \in chosen : f[i] \in RawValues(i)}}

\* the 'details' of the enumerated profiles: up to MaxDetails entries
DetailsChoices ==
    UNION {DetailsFor(chosen) :
              chosen \in {c \in SUBSET (1..Len(FieldDefs)) : Cardinality(c) <= MaxDetails}}

\* the name parts a profile or a family member's details can hold
NameParts ==
    {first \o last \o nick :
        first \in {<<>>, << <<"first_name", Str("Ann")>> >>},
        last \in {<<>>, << <<"last_name", Str("Lee")>> >>},
        nick \in {<<>>, << <<"nick_name", Str("Nan")>> >>}}

Relative(pairs) == MkDict(pairs)

\* the 'family' lists of the enumerated profiles
FamilyChoices ==
    {PyList(<<Relative(<< <<"details", MkDict(<< <<"first_name", Str("Bob")>>,
                                                  <<"last_name", Str("Lee")>> >>)>>,
                          <<"role_name", Str("Spouse")>> >>)>>),
     PyList(<<Relative(<< <<"details", MkDict(<<>>)>> >>)>>),
     PyList(<<Relative(<< <<"details", MkDict(<<>>)>> >>),
              Relative(<< <<"details", MkDict(<<>>)>> >>)>>),
     PyList(<<Relative(<< <<"role_name", Str("Child")>> >>)>>)}

\* a profile: id, name parts, and 'details' and 'family' where it has them
MkProfile(id, names, details, family) ==
    MkDict(<< <<"id", id>> >> \o names
           \o (IF details = <<>> THEN <<>> ELSE << <<"details", details[1]>> >>)
           \o (IF family = <<>> THEN <<>> ELSE << <<"family", family[1]>> >>))

Profiles ==
    {MkProfile(Str("p1"), names, details, family) :
        names \in NameParts,
        details \in {<<>>} \cup {<<d>> : d \in DetailsChoices},
        family \in {<<>>} \cup {<<f>> : f \in FamilyChoices}}

----------------------------------------------------------------------------
(* ProfileHelper(catalog).process_member_profile(profile) as a state machine *)

NormInit ==
    /\ pc = "normalize"
    /\ profile_fields \in Catalogs
    /\ helper = ProfileHelper(profile_fields)
    /\ profile \in Profiles
    /\ normalized = None
    /\ JoinIdle
    /\ DiffIdle
    /\ ListIdle
    /\ ApiIdle

\* process_member_profile returns a dict (line 284)
NormalizeReturn ==
    /\ pc = "normalize"
    /\ normalized' = process_member_profile(helper, profile)
    /\ ~IsRaise(normalized')
    /\ pc' = "normalized"
    /\ UNCHANGED <<profile_fields, helper, profile, joinVars, diffVars, listVars, apiVars>>

\* an extractor raised: the exception leaves process_member_profile
NormalizeRaise ==
    /\ pc = "normalize"
    /\ normalized' = process_member_profile(helper, profile)
    /\ IsRaise(normalized')
    /\ pc' = "raised"
    /\ UNCHANGED <<profile_fields, helper, profile, joinVars, diffVars, listVars, apiVars>>

NormNext ==
    \/ NormalizeReturn
    \/ NormalizeRaise

SpecNormalize == NormInit /\ [][NormNext]_vars

----------------------------------------------------------------------------
(* _PhoneExtractor over enumerated phone entries *)

\* most entries in the phone list of a profile
MaxPhones == 2

\* phone entries: number present, empty or absent; type primary, other or
\* absent; each of the two flags set or absent
PhoneEntries ==
    {MkDict(num \o typ \o priv \o dnt) :
        num \in {<<>>, << <<"phone_number", PhoneNumber>> >>,
                 << <<"phone_number", EmptyStr>> >>},
        typ \in {<<>>, << <<"phone_type", Str("primary")>> >>,
                 << <<"phone_type", Str("mobile")>> >>},
        priv \in {<<>>, << <<"is_private", Str("1")>> >>},
        dnt \in {<<>>, << <<"do_not_text", Str("1")>> >>}}

PhoneLists == UNION {[1..n -> PhoneEntries] : n \in 0..MaxPhones}

\* the catalog with the phone field alone
PhoneCatalog == PyList(<<Section("Main", <<FieldDefs[5]>>)>>)

\* profiles whose details hold a phone list, and one without details
PhoneProfiles ==
    {MkProfile(Str("p1"), <<>>, <<MkDict(<< <<"105", PyList(phones)>> >>)>>, <<>>) :
        phones \in PhoneLists}
    \cup {MkProfile(Str("p1"), <<>>, <<>>, <<>>)}

PhoneInit ==
    /\ pc = "normalize"
    /\ profile_fields = PhoneCatalog
    /\ helper = ProfileHelper(profile_fields)
    /\ profile \in PhoneProfiles
    /\ normalized = None
    /\ JoinIdle
    /\ DiffIdle
    /\ ListIdle
    /\ ApiIdle

SpecPhone == PhoneInit /\ [][NormNext]_vars

----------------------------------------------------------------------------
(* ProfileHelper(catalog).process_profiles(profile_list) as a state machine *)

\* most profiles in a list given to process_profiles
MaxProfiles == 2

\* the section lists the helpers of the lists and rosters are built from
ListCatalogs ==
    {PyList(<<Section("Main", <<FieldDefs[1], FieldDefs[3]>>)>>),
     PyList(<<>>)}

\* versions of the person with the id given: two names, with and without a
\* value for the checkbox field, and one record without 'details'
Listed(id) ==
    {MkProfile(Str(id), << <<"last_name", Str(last)>> >>, <<details>>, <<>>) :
        last \in {"Lee", "Ray"},
        details \in {PyDict(<<>>),
                     PyDict(<<Entry(Str("103"), PyList(<<Choice("78", Str("Coffee Host"))>>))>>)}}
    \cup {MkProfile(Str(id), << <<"last_name", Str("Lee")>> >>, <<>>, <<>>)}

PersonIds == {"p1", "p2", "p3"}

\* the lists of at most MaxProfiles profiles, each with an id of its own (the
\* 'unique member id' of the docstring, lines 292-293)
ProfileLists ==
    UNION {{PyList(people) :
               people \in {ps \in [1..n -> UNION {Listed(id) : id \in PersonIds}] :
                              \A i, j \in 1..n :
                                  Get(ps[i], "id", None) = Get(ps[j], "id", None) => i = j}} :
           n \in 0..MaxProfiles}

ProfilesInit ==
    /\ pc = "process"
    /\ profile_fields \in ListCatalogs
    /\ helper = ProfileHelper(profile_fields)
    /\ profile = None /\ normalized = None
    /\ profile_list \in ProfileLists
    /\ processed = None
    /\ JoinIdle
    /\ DiffIdle
    /\ ApiIdle

\* process_profiles returns the dict (lines 295-296)
ProcessReturn ==
    /\ pc = "process"
    /\ processed' = process_profiles(helper, profile_list)
    /\ ~IsRaise(processed')
    /\ pc' = "processed"
    /\ UNCHANGED <<profile_list, joinVars, normVars, diffVars, apiVars>>

\* process_member_profile raised for one of the profiles
ProcessRaise ==
    /\ pc = "process"
    /\ processed' = process_profiles(helper, profile_list)
    /\ IsRaise(processed')
    /\ pc' = "raised"
    /\ UNCHANGED <<profile_list, joinVars, normVars, diffVars, apiVars>>

ProfilesNext ==
    \/ ProcessReturn
    \/ ProcessRaise

SpecProfiles == ProfilesInit /\ [][ProfilesNext]_vars

----------------------------------------------------------------------------
(* profile_compare (lines 367-407) and compare_profiles (lines 410-435) *)

\* dict.update (line 430): the entries of more stored over entries
RECURSIVE Update(_, _)
Update(entries, more) ==
    IF more = <<>> THEN entries
    ELSE Update(DictSet(entries, Head(more).key, Head(more).val), Tail(more))

\* a mutant of field_names: the reference helper's names win
FieldNamesPrevWins(prev, cur) ==
    PyDict(Update(get_field_id_to_name(cur).d, get_field_id_to_name(prev).d))

\* lines 429-430: the reference helper's names, updated with the current's
field_names(prev, cur) ==
    PyDict(Update(get_field_id_to_name(prev).d, get_field_id_to_name(cur).d))

\* line 433, or the exception process_profiles raised (cur first: line 431)
JoinOrRaise(ref_values, cur_values) ==
    IF IsRaise(cur_values) THEN cur_values
    ELSE IF IsRaise(ref_values) THEN ref_values
    ELSE join_dicts(ref_values, cur_values)

\* lines 431-433: merged_values
merged_values(prev, cur, prev_list, cur_list) ==
    JoinOrRaise(process_profiles(prev, prev_list), process_profiles(cur, cur_list))

\* line 385: field_map if field_map else {}
FieldMapOf(names) == IF Truthy(names) THEN names.d ELSE <<>>

\* a mutant of ToSet: a list taken as one value, not as its members
ToSetUnflattened(val) == IF Truthy(val) THEN {val} ELSE {}

\* lines 395-398: set(val if isinstance(val, list) else [val]) if val else set()
ToSet(val) ==
    IF Truthy(val)
    THEN IF val.t = "list" THEN Range(val.l) ELSE {val}
    ELSE {}

\* a mutant of Orderings: a member may be listed again in place of another
OrderingsRepeating(elems) == [1..Cardinality(elems) -> elems]

\* list(s) of a set s: its members once each, in an order the build chooses
Orderings(elems) ==
    {seq \in [1..Cardinality(elems) -> elems] :
        \A i, j \in 1..Cardinality(elems) : seq[i] = seq[j] => i = j}

\* lines 401-403: the tuple appended for a field
field_tuple(field_name, only_r, only_c) ==
    PyTuple(<<field_name, PyList(only_r), PyList(only_c)>>)

\* a mutant of person_name: the current fields are read first
PersonNameCurrentFirst(ref, cur) == Get(IF Truthy(cur) THEN cur ELSE ref, "name", None)

\* line 405: the name of the person visited
person_name(ref, cur) == Get(IF Truthy(ref) THEN ref ELSE cur, "name", None)

\* a mutant of PersonHasDiffs: every person is appended
PersonAlways(field_diffs) == TRUE

\* line 404: if person_result
PersonHasDiffs(field_diffs) == field_diffs # <<>>

----------------------------------------------------------------------------
(* The catalogs and rosters compare_profiles is run on *)

\* most people in a roster
MaxPeople == 1

\* two versions of a catalog: the fields reordered, the section renamed
CompareCatalogs ==
    {PyList(<<Section("Main", <<FieldDefs[1], FieldDefs[3]>>)>>),
     PyList(<<Section("Groups", <<FieldDefs[3], FieldDefs[1]>>)>>),
     PyList(<<Section("Main", <<FieldDefs[1]>>)>>)}

CoffeeHost == Choice("78", Str("Coffee Host"))
Worship == Choice("145", Str("Worship"))
Greeter == Choice("150", Str("Greeter"))

\* 'details' with the checkbox field (103) set to the choices given, and the
\* single-line field (101) where school is given
Answers(school, choices) ==
    PyDict((IF choices = <<>> THEN <<>> ELSE <<Entry(Str("103"), PyList(choices))>>)
           \o (IF school = <<>> THEN <<>> ELSE <<Entry(Str("101"), school[1])>>))

\* versions of person p1, one of them without any name part
PersonOne ==
    {MkProfile(Str("p1"), << <<"last_name", Str("Lee")>> >>, <<details>>, <<>>) :
        details \in {Answers(<<>>, <<>>),
                     Answers(<<>>, <<CoffeeHost>>),
                     Answers(<<>>, <<CoffeeHost, Worship>>),
                     Answers(<<Str("Wilder")>>, <<Worship, CoffeeHost>>),
                     Answers(<<>>, <<CoffeeHost, CoffeeHost>>),
                     Answers(<<>>, <<Worship, Greeter>>),
                     Answers(<<>>, <<Worship, CoffeeHost>>),
                     Answers(<<Str("Wilder")>>, <<>>)}}
    \cup {MkProfile(Str("p1"), <<>>, <<details>>, <<>>) :
             details \in {Answers(<<>>, <<>>), Answers(<<>>, <<CoffeeHost>>)}}

\* versions of person p2, one of them a record without 'details'
PersonTwo ==
    {MkProfile(Str("p2"), << <<"first_name", Str("Bob")>>, <<"last_name", Str("Ray")>> >>,
               <<Answers(<<>>, <<Worship>>)>>, <<>>),
     MkProfile(Str("p2"), << <<"last_name", Str("Ray")>> >>, <<>>, <<>>)}

\* the lists of people: at most MaxPeople, no id twice
Rosters ==
    {PyList(people) :
        people \in {<<>>}
                   \cup (IF MaxPeople >= 1
                         THEN {<<one>> : one \in PersonOne \cup PersonTwo}
                         ELSE {})
                   \cup (IF MaxPeople >= 2
                         THEN {<<one, two>> : one \in PersonOne, two \in PersonTwo}
                              \cup {<<two, one>> : one \in PersonOne, two \in PersonTwo}
                         ELSE {})}

----------------------------------------------------------------------------
(* compare_profiles as a state machine: one step per person and per field *)

CompareInit ==
    /\ pc = "compare"
    /\ \E catalog_prev \in CompareCatalogs : prev_helper = ProfileHelper(catalog_prev)
    /\ \E catalog_cur \in CompareCatalogs : cur_helper = ProfileHelper(catalog_cur)
    /\ prev_people \in Rosters
    /\ cur_people \in Rosters
    /\ field_map = None /\ diffs = None
    /\ fields_r = None /\ fields_c = None
    /\ merged = None /\ field_id = None
    /\ val_r = None /\ val_c = None
    /\ person_result = <<>> /\ report = <<>>
    /\ JoinIdle
    /\ NormIdle
    /\ ListIdle
    /\ ApiIdle

\* lines 429-435 and 385-386: the call of profile_compare on the merged values
CompareBegin ==
    /\ pc = "compare"
    /\ diffs' = merged_values(prev_helper, cur_helper, prev_people, cur_people)
    /\ ~IsRaise(diffs')
    /\ field_map' = field_names(prev_helper, cur_helper)
    /\ report' = <<>>
    /\ pc' = "people"
    /\ UNCHANGED <<prev_helper, cur_helper, prev_people, cur_people, fields_r,
                   fields_c, merged, field_id, val_r, val_c, person_result,
                   joinVars, normVars, listVars, apiVars>>

\* lines 431-432: process_profiles raised, the exception leaves compare_profiles
CompareRaise ==
    /\ pc = "compare"
    /\ diffs' = merged_values(prev_helper, cur_helper, prev_people, cur_people)
    /\ IsRaise(diffs')
    /\ pc' = "raised"
    /\ UNCHANGED <<prev_helper, cur_helper, prev_people, cur_people, field_map,
                   fields_r, fields_c, merged, field_id, val_r, val_c,
                   person_result, report, joinVars, normVars, listVars, apiVars>>

\* lines 387-390: the next person of diffs
NextPerson ==
    /\ pc = "people" /\ diffs.d # <<>>
    /\ fields_r' = Head(diffs.d).val.l[1]
    /\ fields_c' = Head(diffs.d).val.l[2]
    /\ merged' = join_dicts(fields_r', fields_c')
    /\ person_result' = <<>>
    /\ diffs' = PyDict(Tail(diffs.d))
    /\ pc' = "fields"
    /\ UNCHANGED <<prev_helper, cur_helper, prev_people, cur_people, field_map,
                   field_id, val_r, val_c, report, joinVars, normVars, listVars, apiVars>>

\* lines 391-392: the next field of merged
VisitField ==
    /\ pc = "fields" /\ merged.d # <<>>
    /\ field_id' = Head(merged.d).key
    /\ val_r' = Head(merged.d).val.l[1]
    /\ val_c' = Head(merged.d).val.l[2]
    /\ merged' = PyDict(Tail(merged.d))
    /\ pc' = "fields"
    /\ UNCHANGED <<prev_helper, cur_helper, prev_people, cur_people, field_map,
                   diffs, fields_r, fields_c, report, joinVars, normVars, listVars, apiVars>>

\* line 394: val_r == val_c
FieldSame ==
    /\ VisitField
    /\ val_r' = val_c'
    /\ person_result' = person_result

\* line 399: the values differ, their sets do not
FieldSetEqual ==
    /\ VisitField
    /\ val_r' # val_c'
    /\ ToSet(val_r') = ToSet(val_c')
    /\ person_result' = person_result

\* lines 399-403: the sets differ, a tuple is appended
FieldDiffers ==
    /\ VisitField
    /\ val_r' # val_c'
    /\ ToSet(val_r') # ToSet(val_c')
    /\ \E only_r \in Orderings(ToSet(val_r') \ ToSet(val_c')),
          only_c \in Orderings(ToSet(val_c') \ ToSet(val_r')) :
           person_result' =
               Append(person_result,
                      field_tuple(DictGet(FieldMapOf(field_map), field_id', field_id'),
                                  only_r, only_c))

\* lines 404-406: the person has field tuples and is appended to the result
PersonEmit ==
    /\ pc = "fields" /\ merged.d = <<>>
    /\ PersonHasDiffs(person_result)
    /\ report' = Append(report, PyTuple(<<person_name(fields_r, fields_c),
                                          PyList(person_result)>>))
    /\ pc' = "people"
    /\ UNCHANGED <<prev_helper, cur_helper, prev_people, cur_people, field_map,
                   diffs, fields_r, fields_c, merged, field_id, val_r, val_c,
                   person_result, joinVars, normVars, listVars, apiVars>>

\* line 404: the person has none
PersonSkip ==
    /\ pc = "fields" /\ merged.d = <<>>
    /\ ~PersonHasDiffs(person_result)
    /\ pc' = "people"
    /\ UNCHANGED <<prev_helper, cur_helper, prev_people, cur_people, field_map,
                   diffs, fields_r, fields_c, merged, field_id, val_r, val_c,
                   person_result, report, joinVars, normVars, listVars, apiVars>>

\* line 407: return result
CompareReturn ==
    /\ pc = "people" /\ diffs.d = <<>>
    /\ pc' = "compared"
    /\ UNCHANGED <<joinVars, normVars, diffVars, listVars, apiVars>>

CompareNext ==
    \/ CompareBegin
    \/ CompareRaise
    \/ NextPerson
    \/ FieldSame
    \/ FieldSetEqual
    \/ FieldDiffers
    \/ PersonEmit
    \/ PersonSkip
    \/ CompareReturn

SpecCompare == CompareInit /\ [][CompareNext]_vars

\* the maps profile_compare is called with directly: none, an empty one, one
\* that knows the single-line field only, and a helper's own
DirectMaps(hlp) ==
    {None, PyDict(<<>>), MkDict(<< <<"101", Str("School")>> >>),
     get_field_id_to_name(hlp)}

\* profile_compare (lines 367-407) called by itself, on the join of two
\* process_profiles results as its docstring asks, with a map of its own
ProfileCompareInit ==
    /\ pc = "people"
    /\ prev_helper = None /\ cur_helper = None
    /\ prev_people = None /\ cur_people = None
    /\ \E catalog \in CompareCatalogs :
           /\ \E ref \in Rosters, cur \in Rosters :
                  diffs = merged_values(ProfileHelper(catalog), ProfileHelper(catalog),
                                        ref, cur)
           /\ field_map \in DirectMaps(ProfileHelper(catalog))
    /\ ~IsRaise(diffs)
    /\ fields_r = None /\ fields_c = None
    /\ merged = None /\ field_id = None
    /\ val_r = None /\ val_c = None
    /\ person_result = <<>> /\ report = <<>>
    /\ JoinIdle
    /\ NormIdle
    /\ ListIdle
    /\ ApiIdle

\* compare_profiles, or profile_compare called by itself
ReportInit == CompareInit \/ ProfileCompareInit

SpecReport == ReportInit /\ [][CompareNext]_vars

----------------------------------------------------------------------------
(* BreezeApi (breeze_chms_api/breeze.py): _request and the profile-field     *)
(* catalog it builds on first use; _request of the older breeze/breeze.py    *)

\* the response a connection returns: response.ok, whether response.json()
\* raises ConnectionError, and the JSON body
Response(ok, error, body) == [ok |-> ok, error |-> error, json |-> body]

\* 'errors' in response / 'errorCode' in response (breeze/breeze.py line 120):
\* a key of a dict, a member of a list
Contains(body, name) ==
    IF body.t = "dict" THEN HasKey(body.d, Str(name))
    ELSE Str(name) \in Range(body.l)

\* breeze/breeze.py _request_succeeded (lines 115-120)
_request_succeeded(body) ==
    IF body.t = "bool" THEN Truthy(body)
    ELSE ~(Contains(body, "errors") \/ Contains(body, "errorCode"))

\* breeze/breeze.py _request (lines 101-113): the value returned or the
\* exception raised; `in` on None raises TypeError
legacy_request(dry, resp) ==
    IF dry THEN None
    ELSE IF resp.error THEN PyRaise("BreezeError")
    ELSE IF IsNone(resp.json) THEN PyRaise("TypeError")
    ELSE IF ~_request_succeeded(resp.json) THEN PyRaise("BreezeError")
    ELSE resp.json

\* breeze_chms_api/breeze.py lines 225-227: the body is a dict with a true
\* 'errors' or 'errorCode'
HasErrors(body) ==
    /\ body.t = "dict"
    /\ \/ Truthy(Get(body, "errors", None))
       \/ Truthy(Get(body, "errorCode", None))

\* breeze_chms_api/breeze.py _request (lines 182-229): the value returned or
\* the exception raised
_request(dry, resp) ==
    IF dry THEN None
    ELSE IF ~resp.ok THEN PyRaise("BreezeError")
    ELSE IF resp.error THEN PyRaise("BreezeError")
    ELSE IF HasErrors(resp.json) THEN PyRaise("BreezeError")
    ELSE resp.json

\* the BreezeApi object: the four attributes of lines 173-180 and dry_run
ApiObject(dry, fields, by_id, by_name, specs) ==
    [dry_run |-> dry, profile_fields |-> fields, profile_spec_by_id |-> by_id,
     profile_spec_by_name |-> by_name, profile_specs |-> specs]

\* BreezeApi.__init__ (lines 159-180)
NewApi(dry) == ApiObject(dry, PyList(<<>>), <<>>, <<>>, <<>>)

\* what a call leaves behind: the object, the value returned or the exception
\* raised, and whether a request went to the profile-fields endpoint
Outcome(obj, ret, sent) == [api |-> obj, ret |-> ret, sent |-> sent]

\* line 317: field['section_spec'] = section (the section as it was received:
\* the reference back from the section's own fields is not followed)
WithSection(field, section) == PyDict(DictSet(field.d, Str("section_spec"), section))

\* lines 315-320: one field of a section entered in the three tables
IndexField(obj, field, section) ==
    [obj EXCEPT
        !.profile_spec_by_id =
            DictSet(@, Get(field, "field_id", None), WithSection(field, section)),
        !.profile_spec_by_name =
            DictSet(@, Get(field, "name", None), WithSection(field, section)),
        !.profile_specs = Append(@, WithSection(field, section))]

\* lines 314-320: the fields of one section
RECURSIVE IndexFields(_, _, _)
IndexFields(obj, fields, section) ==
    IF fields = <<>> THEN obj
    ELSE IndexFields(IndexField(obj, Head(fields), section), Tail(fields), section)

\* lines 313-320: every section of the list received
RECURSIVE IndexSections(_, _)
IndexSections(obj, sections) ==
    IF sections = <<>> THEN obj
    ELSE IndexSections(IndexFields(obj, Get(Head(sections), "fields", None).l,
                                   Head(sections)),
                       Tail(sections))

\* the section list as the caller sees it once its fields carry 'section_spec'
SectionsIndexed(sections) ==
    PyList([i \in 1..Len(sections) |->
               PyDict(DictSet(sections[i].d, Str("fields"),
                              PyList([j \in 1..Len(Get(sections[i], "fields", None).l) |->
                                         WithSection(Get(sections[i], "fields", None).l[j],
                                                     sections[i])])))])

\* lines 312-321 from what _request gave: its exception leaves the object as
\* it was; a list is indexed; anything else is stored and then iterated
\* (None or a bool is not iterable, the keys of a dict are str without .get)
Built(obj, body) ==
    IF IsRaise(body) THEN Outcome(obj, body, TRUE)
    ELSE IF body.t = "list"
    THEN Outcome([IndexSections(obj, body.l) EXCEPT
                     !.profile_fields = SectionsIndexed(body.l)],
                 SectionsIndexed(body.l), TRUE)
    ELSE IF body.t = "dict"
    THEN Outcome([obj EXCEPT !.profile_fields = body],
                 IF Truthy(body) THEN PyRaise("AttributeError") ELSE body, TRUE)
    ELSE Outcome([obj EXCEPT !.profile_fields = body], PyRaise("TypeError"), TRUE)

\* a request under dry_run is not sent
Unsent(out, dry) == [out EXCEPT !.sent = ~dry]

\* BreezeApi._build_profile_fields (lines 297-321)
_build_profile_fields(obj, resp) ==
    IF ~Truthy(obj.profile_fields)
    THEN Unsent(Built(obj, _request(obj.dry_run, resp)), obj.dry_run)
    ELSE Outcome(obj, obj.profile_fields, FALSE)

\* BreezeApi.get_profile_fields (lines 323-334)
get_profile_fields(obj, resp) ==
    IF Truthy(obj.profile_fields)
    THEN Outcome(obj, obj.profile_fields, FALSE)
    ELSE _build_profile_fields(obj, resp)

\* the table lookup after the build, unless the build raised
LookupIn(out, table, key) ==
    IF IsRaise(out.ret) THEN out
    ELSE Outcome(out.api, DictGet(out.api[table], key, None), out.sent)

\* lines 342-343 and 352-353: if not self.profile_fields: build
BuiltOnce(obj, resp) ==
    IF ~Truthy(obj.profile_fields)
    THEN _build_profile_fields(obj, resp)
    ELSE Outcome(obj, None, FALSE)

\* BreezeApi.get_field_spec_by_id (lines 336-344)
get_field_spec_by_id(obj, resp, fid) ==
    LookupIn(BuiltOnce(obj, resp), "profile_spec_by_id", fid)

\* BreezeApi.get_field_spec_by_name (lines 346-354)
get_field_spec_by_name(obj, resp, name) ==
    LookupIn(BuiltOnce(obj, resp), "profile_spec_by_name", name)

----------------------------------------------------------------------------
(* The service's responses and the arguments of the calls *)

\* most requests sent to the profile-fields endpoint in one run
MaxRequests == 2

CatalogField(fid, name) == FieldDef(fid, name, "single_line")

\* the catalogs the service can deliver: an empty one, and two whose sections
\* both have a field called Notes
ServedCatalogs ==
    {PyList(<<>>),
     PyList(<<Section("Main", <<CatalogField("11", "Notes")>>),
              Section("Groups", <<CatalogField("12", "Notes")>>)>>),
     PyList(<<Section("Main", <<CatalogField("11", "Notes"),
                                CatalogField("13", "School")>>)>>)}

\* the JSON bodies of the responses: the catalogs, true and false, bodies with
\* 'errors' or 'errorCode', and the tests' {'name': 'Some Data.'}
Bodies ==
    ServedCatalogs
    \cup {PyBool(FALSE), PyBool(TRUE),
          MkDict(<< <<"errors", Str("Some Errors")>> >>),
          MkDict(<< <<"errorCode", Str("400")>> >>),
          MkDict(<< <<"errors", PyList(<<>>)>> >>),
          MkDict(<< <<"name", Str("Some Data.")>> >>)}

\* the responses: a body delivered, a status that is not 2xx, a connection
\* error on reading the body
Responses ==
    {Response(TRUE, FALSE, body) : body \in Bodies}
    \cup {Response(FALSE, FALSE, MkDict(<< <<"errorCode", Str("400")>> >>)),
          Response(TRUE, TRUE, None)}

\* the ids and the names, plain and qualified, the lookups are called with
LookupIds == {Str("11"), Str("12"), Str("99")}
LookupNames ==
    {Str("Notes"), Str("School"),
     PyStr(<<"Main", ":", "Notes">>), PyStr(<<"Groups", ":", "Notes">>),
     PyStr(<<"Main", ":", "School">>)}

----------------------------------------------------------------------------
(* Calls on one BreezeApi as a state machine: one action per method called *)

ApiInit ==
    /\ pc = "api"
    /\ \E dry \in BOOLEAN : api = NewApi(dry)
    /\ response = None
    /\ call = None
    /\ returned = None
    /\ requests = 0
    /\ delivered = None
    /\ JoinIdle
    /\ NormIdle
    /\ DiffIdle
    /\ ListIdle

\* a call of a method that reads the catalog: what it leaves behind, the
\* request counted and the response recorded if one was sent, and the catalog
\* remembered as delivered if the call fetched it and returned normally
CatalogCall(op, arg, out, resp) ==
    /\ out.sent => requests < MaxRequests
    /\ api' = out.api
    /\ returned' = out.ret
    /\ call' = [op |-> op, arg |-> arg]
    /\ response' = IF out.sent THEN resp ELSE response
    /\ requests' = IF out.sent THEN requests + 1 ELSE requests
    /\ delivered' = IF out.sent /\ ~IsRaise(out.ret) /\ delivered = None
                    THEN out.api.profile_fields
                    ELSE delivered
    /\ pc' = "api"
    /\ UNCHANGED <<joinVars, normVars, diffVars, listVars>>

GetProfileFields ==
    /\ pc = "api"
    /\ \E resp \in Responses :
           CatalogCall("get_profile_fields", None, get_profile_fields(api, resp), resp)

GetFieldSpecById ==
    /\ pc = "api"
    /\ \E resp \in Responses, fid \in LookupIds :
           CatalogCall("get_field_spec_by_id", fid,
                       get_field_spec_by_id(api, resp, fid), resp)

GetFieldSpecByName ==
    /\ pc = "api"
    /\ \E resp \in Responses, name \in LookupNames :
           CatalogCall("get_field_spec_by_name", name,
                       get_field_spec_by_name(api, resp, name), resp)

\* a call that is one request to another endpoint, as event_check_in (lines
\* 481-491 of breeze_chms_api/breeze.py, the method test_false_response calls)
RequestCall(op, ret, resp) ==
    /\ returned' = ret
    /\ call' = [op |-> op, arg |-> None]
    /\ response' = resp
    /\ pc' = "api"
    /\ UNCHANGED <<api, requests, delivered, joinVars, normVars, diffVars, listVars>>

EventCheckIn ==
    /\ pc = "api"
    /\ \E resp \in Responses :
           RequestCall("event_check_in", _request(api.dry_run, resp), resp)

\* the same call on the BreezeApi of breeze/breeze.py
LegacyEventCheckIn ==
    /\ pc = "api"
    /\ \E resp \in Responses :
           RequestCall("breeze.event_check_in", legacy_request(api.dry_run, resp), resp)

ApiNext ==
    \/ GetProfileFields
    \/ GetFieldSpecById
    \/ GetFieldSpecByName
    \/ EventCheckIn
    \/ LegacyEventCheckIn

SpecBreeze == ApiInit /\ [][ApiNext]_vars

----------------------------------------------------------------------------
(* The merge procedure of the specification (section 4.3), on two queues of  *)
(* entries; it yields the entries in the order it emits them.               *)

RECURSIVE SpecMerge(_, _)
SpecMerge(right, left) ==
    IF right = <<>> /\ left = <<>> THEN <<>>
    ELSE IF right # <<>> /\ left # <<>> /\ Head(right).key = Head(left).key
    THEN \* heads match: emit paired, advance both
         <<Entry(Head(left).key, PyTuple(<<Head(right).val, Head(left).val>>))>>
             \o SpecMerge(Tail(right), Tail(left))
    ELSE IF left # <<>> /\ right # <<>> /\ HasKey(Tail(right), Head(left).key)
    THEN \* left's head is later in right: pull it out, advance left only
         <<Entry(Head(left).key,
                 PyTuple(<<DictGet(right, Head(left).key, None), Head(left).val>>))>>
             \o SpecMerge(DictRemove(right, Head(left).key), Tail(left))
    ELSE IF left # <<>> /\ right # <<>> /\ HasKey(Tail(left), Head(right).key)
    THEN \* right's head is later in left: requeue it, emit left's head alone
         <<Entry(Head(left).key, PyTuple(<<None, Head(left).val>>))>>
             \o SpecMerge(Append(Tail(right), Head(right)), Tail(left))
    ELSE \* emit both heads alone, advance both
         (IF right # <<>>
          THEN <<Entry(Head(right).key, PyTuple(<<Head(right).val, None>>))>>
          ELSE <<>>)
         \o (IF left # <<>>
             THEN <<Entry(Head(left).key, PyTuple(<<None, Head(left).val>>))>>
             ELSE <<>>)
         \o SpecMerge(IF right # <<>> THEN Tail(right) ELSE <<>>,
                      IF left # <<>> THEN Tail(left) ELSE <<>>)

----------------------------------------------------------------------------
(* Claims about join_dicts *)

\* the two input mappings, as entry sequences
RightIn == OrderedDictOf(values_right)
LeftIn == OrderedDictOf(values_left)

\* C1: the keys of the result of join_dicts are exactly the union of the keys of
\* right and of left, and the result has that many entries.
C1_KeysAreUnion ==
    pc = "done" =>
        /\ KeysOf(result) = KeysOf(RightIn) \cup KeysOf(LeftIn)
        /\ Len(result) = Cardinality(KeysOf(RightIn) \cup KeysOf(LeftIn))

\* C2: every key k of the result maps to the pair (right[k] or None, left[k] or
\* None); a key of both inputs is never emitted with one side missing.
C2_ValuesArePairs ==
    pc = "done" =>
        \A i \in 1..Len(result) :
            result[i].val = PyTuple(<<DictGet(RightIn, result[i].key, None),
                                      DictGet(LeftIn, result[i].key, None)>>)

\* C2 witness: a finished merge of two mappings that share a key which the
\* cross-pull branch emitted, with a right-only and a left-only key as well.
C2_Witness ==
    /\ pc = "done"
    /\ \E k \in KeysOf(RightIn) \cap KeysOf(LeftIn) :
           /\ HasKey(result, k)
           /\ IndexOf(RightIn, k) # IndexOf(LeftIn, k)
    /\ KeysOf(RightIn) \ KeysOf(LeftIn) # {}
    /\ KeysOf(LeftIn) \ KeysOf(RightIn) # {}

\* C3: for the right keys [a,l,x,c,d,e,b,z,q] and the left keys [a,b,c,e,f,x,q]
\* the result's keys are, in order, [a,b,c,e,l,f,x,q,d,z].
C3_ExampleOrder ==
    (/\ pc = "done"
     /\ KeySeq(RightIn) = ExampleRightKeys
     /\ KeySeq(LeftIn) = ExampleLeftKeys)
        => KeySeq(result) = ExampleOrder

\* C3 witness: the merge of the example has finished.
C3_Witness ==
    /\ pc = "done"
    /\ KeySeq(RightIn) = ExampleRightKeys
    /\ KeySeq(LeftIn) = ExampleLeftKeys
    /\ Len(result) = Len(ExampleOrder)

\* C4: the entries join_dicts returns are, in order, the entries the
\* specification's four-branch queue procedure emits.
C4_MatchesSpecProcedure ==
    pc = "done" => result = SpecMerge(RightIn, LeftIn)

\* C5: when join_dicts returns, both queues are exhausted: no input entry is
\* still queued or held as a current head.
C5_BothExhausted ==
    pc = "done" =>
        /\ dat_left = <<>> /\ dat_right = <<>>
        /\ key_left = None /\ val_left = None
        /\ key_right = None /\ val_right = None

----------------------------------------------------------------------------
(* Claims about ProfileHelper.process_member_profile *)

\* C6: for every catalog and every profile, no key of the mapping returned by
\* process_member_profile maps to None, to the empty string or to an empty
\* list, the keys 'name' and 'family' and a profile without name parts included.
C6_NoEmptyValues ==
    pc = "normalized" =>
        \A i \in 1..Len(normalized.d) :
            normalized.d[i].val \notin {None, EmptyStr, PyList(<<>>)}

FamilyWellFormed(prof) ==
    \A i \in 1..Len(Get(prof, "family", None).l) :
        Get(Get(prof, "family", None).l[i], "details", None).t = "dict"

\* C11: normalizing a profile never raises because field data is absent: for a
\* profile that lacks the 'details' mapping, or lacks a field in it,
\* process_member_profile returns normally (the entries of its 'family', if
\* any, being well formed).
C11_AbsentDataNeverRaises ==
    FamilyWellFormed(profile) => pc # "raised"

\* the ids of the catalog's fields whose field_type has no registered extractor
UnregisteredIds(catalog) ==
    {Get(field_def, "field_id", None) :
        field_def \in {f \in UNION {Range(Get(section, "fields", None).l) :
                                       section \in Range(catalog.l)} :
                          _extractors(Get(f, "field_type", None)) = "none"}}

\* C12: a catalog field whose field_type has no registered extractor is
\* silently excluded: its id is absent from get_field_id_to_name(), no
\* normalized profile contains it whatever the profile holds for it, and a
\* catalog of such fields alone never makes process_member_profile raise.
C12_UnregisteredExcluded ==
    /\ \A fid \in UnregisteredIds(profile_fields) :
           /\ ~HasKey(get_field_id_to_name(helper).d, fid)
           /\ pc = "normalized" => ~HasKey(normalized.d, fid)
    /\ (/\ UnregisteredIds(profile_fields) # {}
        /\ FamilyWellFormed(profile)
        /\ Get(profile, "details", None).t = "dict")
           => pc # "raised"

\* C12 witness: a catalog with the field 107 of type 'file' and a profile
\* holding a value for 107 were processed.
C12_Witness ==
    /\ pc = "normalized"
    /\ Str("107") \in UnregisteredIds(profile_fields)
    /\ Truthy(Get(Get(profile, "details", None), "107", None))
    /\ ~HasKey(normalized.d, Str("107"))

\* C14: display-name construction omits the leading ', ' when the profile has
\* no last name: with a first name and no last name the name starts with the
\* first name, not with a comma.
C14_NoLeadingComma ==
    (/\ pc = "normalized"
     /\ Truthy(Get(profile, "first_name", None))
     /\ ~HasKey(profile.d, Str("last_name")))
        => /\ Get(normalized, "name", None) = _extract_name(profile)
           /\ Head(_extract_name(profile).s) = Head(Get(profile, "first_name", None).s)

----------------------------------------------------------------------------
(* Claims about profile_compare *)

\* the set of values of one side of a field as the specification reads it: a
\* list its members, a scalar a one-element set, an absent side the empty set
SpecSet(val) ==
    IF IsNone(val) THEN {}
    ELSE IF val.t = "list" THEN Range(val.l)
    ELSE {val}

\* a step of the loop over the fields of the person visited
FieldStep == pc = "fields" /\ pc' = "fields"

\* C8: profile_compare never reports a field whose two sides are equal as sets
\* (a scalar a one-element set, an absent side the empty set, order and
\* duplicates ignored): visiting such a field appends no tuple.
C8_SetEqualNotReported ==
    [][(FieldStep /\ SpecSet(val_r') = SpecSet(val_c'))
           => person_result' = person_result]_vars

\* C8 witness: a field was visited whose two values differ as lists (in order
\* or in duplicates, or a list against a scalar) but not as sets.
C8_Witness ==
    /\ pc = "fields"
    /\ field_id = Str("103")
    /\ val_r # val_c
    /\ SpecSet(val_r) = SpecSet(val_c)
    /\ person_result = <<>>
    /\ merged.d = <<>>

EverySetEqual(ref, cur) ==
    \A k \in KeysOf(ref.d) \cup KeysOf(cur.d) :
        SpecSet(DictGet(ref.d, k, None)) = SpecSet(DictGet(cur.d, k, None))

\* C10: profile_compare appends an entry for a person only when the person has
\* a field-level difference: the entry appended has a non-empty list of field
\* tuples, and the person's fields are not all set-equal on both sides.
C10_EntryOnlyWithDifference ==
    [][report' # report
           => /\ report' = Append(report, PyTuple(<<person_name(fields_r, fields_c),
                                                    PyList(person_result)>>))
              /\ person_result # <<>>
              /\ ~EverySetEqual(fields_r, fields_c)]_vars

\* C10 witness: a person present in both snapshots with different but set-equal
\* fields was visited, and the result has no entry.
C10_Witness ==
    /\ pc = "people"
    /\ Truthy(fields_r) /\ Truthy(fields_c)
    /\ fields_r # fields_c
    /\ EverySetEqual(fields_r, fields_c)
    /\ report = <<>>

----------------------------------------------------------------------------
(* Claims about BreezeApi, checked under SpecBreeze *)

\* C13: once a call has fetched the catalog and returned normally, no later
\* call of get_profile_fields, get_field_spec_by_id or get_field_spec_by_name
\* sends a request to the profile-fields endpoint, and every later
\* get_profile_fields returns the catalog that fetch left in the object,
\* whatever catalog it was (an empty one included).
C13_BuiltOnce ==
    [][delivered # None =>
          /\ requests' = requests
          /\ call'.op = "get_profile_fields" => returned' = delivered]_vars

\* the fields of the catalog in the object, each with its section's name
QualifiedFields(obj) ==
    IF obj.profile_fields.t # "list" THEN {}
    ELSE UNION {{[section |-> Get(sec, "name", None), field |-> fld] :
                    fld \in Range(Get(sec, "fields", None).l)} :
                sec \in Range(obj.profile_fields.l)}

\* '{section name}:{field name}'
qualified_name(qf) == PyStr(qf.section.s \o <<":">> \o Get(qf.field, "name", None).s)

\* C16: get_field_spec_by_name called with '{section name}:{field name}' of a
\* field of the fetched catalog returns the specification of that field (its
\* id and its name), also when another section has a field of the same name.
C16_QualifiedNameLookup ==
    (/\ pc = "api"
     /\ call # None
     /\ call.op = "get_field_spec_by_name"
     /\ ~IsRaise(returned))
    => \A qf \in QualifiedFields(api) :
           call.arg = qualified_name(qf)
           => /\ returned.t = "dict"
              /\ Get(returned, "field_id", None) = Get(qf.field, "field_id", None)
              /\ Get(returned, "name", None) = Get(qf.field, "name", None)

\* the body of a response signals failure: it is the boolean false, or an
\* object with an 'errors' or an 'errorCode' entry
SignalsFailure(body) ==
    \/ body = PyBool(FALSE)
    \/ /\ body.t = "dict"
       /\ HasKey(body.d, Str("errors")) \/ HasKey(body.d, Str("errorCode"))

\* C18: a request that was sent and whose response signals failure raises
\* BreezeError and returns no value, in breeze_chms_api/breeze.py and in
\* breeze/breeze.py.
C18_FailureRaises ==
    (/\ pc = "api"
     /\ call # None
     /\ call.op \in {"event_check_in", "breeze.event_check_in"}
     /\ ~api.dry_run
     /\ ~response.error
     /\ SignalsFailure(response.json))
    => returned = PyRaise("BreezeError")

----------------------------------------------------------------------------
(* Claims about the names in a report, checked under SpecReport *)

\* the name the claim gives a field id in a compare_profiles report
ResolvedName(prev, cur, fid) ==
    IF HasKey(cur.id_to_name, fid) THEN DictGet(cur.id_to_name, fid, None)
    ELSE IF HasKey(prev.id_to_name, fid) THEN DictGet(prev.id_to_name, fid, None)
    ELSE fid

\* C17: the field name of a tuple added to a report is the current helper's
\* name of the field id if the id is known there, otherwise the reference
\* helper's; and when profile_compare is given a map without the id (or no
\* map), it is the field id itself.
C17_NamePrecedence ==
    [][Len(person_result') = Len(person_result) + 1 =>
          /\ cur_helper # None =>
                 person_result'[Len(person_result')].l[1]
                     = ResolvedName(prev_helper, cur_helper, field_id')
          /\ ~HasKey(field_map.d, field_id') =>
                 person_result'[Len(person_result')].l[1] = field_id']_vars

\* a tuple was added for a field only the reference helper knows, under the
\* reference helper's name
C17_Witness ==
    /\ cur_helper # None
    /\ person_result # <<>>
    /\ ~HasKey(cur_helper.id_to_name, field_id)
    /\ HasKey(prev_helper.id_to_name, field_id)
    /\ person_result[Len(person_result)].l[1]
           = DictGet(prev_helper.id_to_name, field_id, None)

----------------------------------------------------------------------------
(* Further claims about join_dicts, checked under Spec *)

\* the key has a value other than None in the mapping
HasValue(entries, k) == HasKey(entries, k) /\ ~IsNone(DictGet(entries, k, None))

\* C19: every key of the result of join_dicts has a value other than None in
\* right or in left; a key whose value is None wherever it occurs is not in
\* the result.
C19_OnlyKeysWithValues ==
    pc = "done" =>
        \A i \in 1..Len(result) :
            HasValue(RightIn, result[i].key) \/ HasValue(LeftIn, result[i].key)

\* a head is pending unless _pop_next gave None, None
HeadCount(key, val) == IF IsNone(key) /\ IsNone(val) THEN 0 ELSE 1

\* the combined pending work: left's head and queue, right's head and queue
Pending ==
    Len(dat_left) + Len(dat_right)
    + HeadCount(key_left, val_left) + HeadCount(key_right, val_right)

\* C20: every iteration of the loop of join_dicts leaves less pending work
\* than it found (the defer branch, which requeues right's head, included),
\* and every call of join_dicts returns.
C20_Terminates ==
    /\ [][(pc = "loop" /\ pc' = "loop") => Pending' < Pending]_vars
    /\ <>(pc = "done")

\* the defer branch has just requeued right's head behind other entries
C20_Witness ==
    /\ pc = "loop"
    /\ branch = "defer"
    /\ Len(dat_right) > 0
    /\ Pending > 0

----------------------------------------------------------------------------
(* Claims about the steps of join_dicts, checked under Spec *)

\* C21: every key the defer branch has moved to the end of right's queue is,
\* when join_dicts returns, in the result, paired with its value in right and
\* its value in left.
C21_RequeuedEmittedAsPair ==
    pc = "done" =>
        \A k \in requeued :
            /\ HasKey(result, k)
            /\ HasKey(RightIn, k) /\ HasKey(LeftIn, k)
            /\ DictGet(result, k, None)
                   = PyTuple(<<DictGet(RightIn, k, None), DictGet(LeftIn, k, None)>>)

\* the entries of a queue other than the one of key k, in their order
Without(entries, k) == SelectSeq(entries, LAMBDA e : e.key # k)

\* C22: the cross-pull step leaves right's head as it was, takes exactly the
\* entry of left's head out of right's queue, the other entries staying in
\* their order, and advances left to its next entry.
C22_CrossPullAdvancesLeftOnly ==
    [][(pc = "loop" /\ pc' = "loop" /\ IsCross(CurrentLoopState)
        /\ LoopCond(CurrentLoopState)) =>
          /\ key_right' = key_right /\ val_right' = val_right
          /\ dat_right' = Without(dat_right, key_left)
          /\ Len(dat_right') = Len(dat_right) - 1
          /\ key_left' = _pop_next(dat_left).key
          /\ val_left' = _pop_next(dat_left).val
          /\ dat_left' = _pop_next(dat_left).rest]_vars

\* a cross-pull has just taken an entry out of right's queue and left entries
\* in it, behind a head that is still right's head
C22_Witness ==
    /\ pc = "loop"
    /\ branch = "cross"
    /\ dat_right # <<>>
    /\ Truthy(key_right)
    /\ Truthy(key_left)

----------------------------------------------------------------------------
(* Claims about the order of the result of join_dicts, checked under Spec *)

\* the keys of a sequence of keys that are in the set ks, in their order
Restrict(key_seq, ks) == SelectSeq(key_seq, LAMBDA k : k \in ks)

\* C23: the keys of the result of join_dicts that are keys of left are, in
\* the result's order, exactly left's key sequence.
C23_LeftOrderKept ==
    pc = "done" => Restrict(KeySeq(result), KeysOf(LeftIn)) = KeySeq(LeftIn)

\* C27: the keys that are in right and not in left are in the result of
\* join_dicts, in the order they have in right.
C27_RightOnlyOrderKept ==
    pc = "done" =>
        Restrict(KeySeq(result), KeysOf(RightIn) \ KeysOf(LeftIn))
            = Restrict(KeySeq(RightIn), KeysOf(RightIn) \ KeysOf(LeftIn))

PendingKeys(key, val, queue) ==
    KeysOf(queue) \cup (IF HeadCount(key, val) = 1 THEN {key} ELSE {})

\* no key already in the result is still pending in right or in left
EmittedNotPending ==
    pc = "loop" =>
        /\ KeysOf(result) \cap PendingKeys(key_right, val_right, dat_right) = {}
        /\ KeysOf(result) \cap PendingKeys(key_left, val_left, dat_left) = {}

\* C28: in every state of the loop of join_dicts no emitted key is still
\* pending in right or in left, and no step changes an entry the result
\* already has: every key is written at most once.
C28_WrittenAtMostOnce ==
    /\ []EmittedNotPending
    /\ [][\A i \in 1..Len(result) :
             Len(result') >= i /\ result'[i] = result[i]]_vars

\* the loop is under way after a requeue: pairs are emitted and both sides
\* still have a head and right a queue
C28_Witness ==
    /\ pc = "loop"
    /\ result # <<>>
    /\ requeued # {}
    /\ dat_right # <<>>
    /\ HeadCount(key_right, val_right) = 1
    /\ HeadCount(key_left, val_left) = 1

----------------------------------------------------------------------------
(* Further claims about the report, checked under SpecCompare *)

\* the ids of the people of a roster, and the profile a roster has for an id
RosterIds(people) == {Get(people.l[i], "id", None) : i \in 1..Len(people.l)}
ProfileOf(people, pid) ==
    people.l[CHOOSE i \in 1..Len(people.l) : Get(people.l[i], "id", None) = pid]

\* the fields a helper gives for the person in a roster, None if not there
FieldsOf(hlp, people, pid) ==
    IF pid \in RosterIds(people)
    THEN process_member_profile(hlp, ProfileOf(people, pid))
    ELSE None

\* the person whose fields are being visited
Visited(pid) ==
    /\ pid \in RosterIds(prev_people) \cup RosterIds(cur_people)
    /\ fields_r = FieldsOf(prev_helper, prev_people, pid)
    /\ fields_c = FieldsOf(cur_helper, cur_people, pid)

\* C24: the name of an entry appended to the report is the name of the
\* person's reference profile if the person is in the reference roster, and
\* the name of the current profile only if not.
C24_NameReferenceFirst ==
    [][report' # report =>
          \A pid \in RosterIds(prev_people) \cup RosterIds(cur_people) :
              Visited(pid) =>
                  report'[Len(report')].l[1]
                      = IF pid \in RosterIds(prev_people)
                        THEN _extract_name(ProfileOf(prev_people, pid))
                        ELSE _extract_name(ProfileOf(cur_people, pid))]_vars

\* an entry was appended for a person who is in both rosters under different
\* names, with the reference name
C24_Witness ==
    /\ pc \in {"people", "compared"}
    /\ report # <<>>
    /\ \E pid \in RosterIds(prev_people) \cap RosterIds(cur_people) :
           /\ Visited(pid)
           /\ _extract_name(ProfileOf(prev_people, pid))
                  # _extract_name(ProfileOf(cur_people, pid))
           /\ report[Len(report)].l[1] = _extract_name(ProfileOf(prev_people, pid))

----------------------------------------------------------------------------
(* C25 *)

\* the phone entries of the profile being normalised
PhonesOf(prof) == Get(Get(prof, "details", MkDict(<<>>)), "105", PyList(<<>>)).l

\* an entry has a number and a phone type
Complete(entry) ==
    /\ Get(entry, "phone_number", EmptyStr) # EmptyStr
    /\ Get(entry, "phone_type", EmptyStr) # EmptyStr

\* the text the extraction is to give for a complete entry
PhoneText(entry) ==
    PyStr((IF Get(entry, "phone_type", None) = Str("primary") THEN <<>>
           ELSE Get(entry, "phone_type", None).s \o <<":">>)
          \o Get(entry, "phone_number", None).s
          \o (IF HasKey(entry.d, Str("is_private")) THEN <<"(private)">> ELSE <<>>)
          \o (IF HasKey(entry.d, Str("do_not_text")) THEN <<"(no text)">> ELSE <<>>))

RECURSIVE PhoneTexts(_)
PhoneTexts(entries) ==
    IF entries = <<>> THEN <<>>
    ELSE (IF Complete(Head(entries)) THEN <<PhoneText(Head(entries))>> ELSE <<>>)
         \o PhoneTexts(Tail(entries))

\* the strings the normalised profile shows for the phone field
ShownPhones(norm) ==
    IF ~HasKey(norm.d, Str("105")) THEN <<>>
    ELSE IF Get(norm, "105", None).t = "list" THEN Get(norm, "105", None).l
    ELSE <<Get(norm, "105", None)>>

\* C25: the normalised phone field holds, in the order of the entries, one
\* string for each entry that has both a number and a type, none for the
\* others; the string is the number, then '(private)' if private, then
\* '(no text)' if do-not-text, with 'type:' in front unless the type is
\* 'primary'
C25_PhoneStrings ==
    pc = "normalized" /\ profile_fields = PhoneCatalog
        => ShownPhones(normalized) = PhoneTexts(PhonesOf(profile))

\* a profile with one entry of each marker alone has been normalised
C25_Witness ==
    /\ pc = "normalized"
    /\ profile_fields = PhoneCatalog
    /\ ShownPhones(normalized) =
           <<PyStr(<<"mobile", ":", "(333) 543-2100", "(no text)">>),
             PyStr(<<"(333) 543-2100", "(private)">>)>>

----------------------------------------------------------------------------
(* C29 *)

\* the field tuple appended last
LastTuple(field_diffs) == field_diffs[Len(field_diffs)].l

NoDuplicate(items) == \A i, j \in 1..Len(items) : items[i] = items[j] => i = j

\* C29: in every field tuple (name, R, C) that profile_compare appends, R and
\* C have no value in common, neither lists a value twice, and at least one
\* of them is not empty.
C29_TupleListsDisjoint ==
    [][(FieldStep /\ person_result' # person_result)
           => /\ Len(person_result') = Len(person_result) + 1
              /\ Range(LastTuple(person_result')[2].l)
                     \cap Range(LastTuple(person_result')[3].l) = {}
              /\ NoDuplicate(LastTuple(person_result')[2].l)
              /\ NoDuplicate(LastTuple(person_result')[3].l)
              /\ LastTuple(person_result')[2].l \o LastTuple(person_result')[3].l # <<>>]_vars

\* C29 witness: the two sides of a field had a value in common and one of
\* their own each, and the tuple appended lists values in R and in C
C29_Witness ==
    /\ pc = "fields"
    /\ person_result # <<>>
    /\ ToSet(val_r) \cap ToSet(val_c) # {}
    /\ LastTuple(person_result)[2].l # <<>>
    /\ LastTuple(person_result)[3].l # <<>>

----------------------------------------------------------------------------
(* C30 *)

\* compare_profiles has returned or raised
Finished == pc \in {"compared", "raised"}

\* the call compares a snapshot with itself
SelfCompare == prev_helper = cur_helper /\ prev_people = cur_people

IsPermutation(a, b) ==
    /\ Len(a) = Len(b)
    /\ \A x \in Range(a) \cup Range(b) :
           Cardinality({i \in 1..Len(a) : a[i] = x})
               = Cardinality({i \in 1..Len(b) : b[i] = x})

\* two values of a field, equal or lists of the same values in another order
SameValue(u, v) == u = v \/ (u.t = "list" /\ v.t = "list" /\ IsPermutation(u.l, v.l))

\* two normalized profiles with the same fields, in whatever order
SameProfile(one, other) ==
    /\ KeysOf(one.d) = KeysOf(other.d)
    /\ \A k \in KeysOf(one.d) : SameValue(DictGet(one.d, k, None), DictGet(other.d, k, None))

\* two process_profiles results that differ at most in the order of list
\* values or of fields
SameUpToOrder(ref, cur) ==
    /\ ~IsRaise(ref) /\ ~IsRaise(cur)
    /\ KeySeq(ref.d) = KeySeq(cur.d)
    /\ \A k \in KeysOf(ref.d) : SameProfile(DictGet(ref.d, k, None), DictGet(cur.d, k, None))

OrderOnly ==
    SameUpToOrder(process_profiles(prev_helper, prev_people),
                  process_profiles(cur_helper, cur_people))

\* C30: compare_profiles of a snapshot with itself returns the empty list, for
\* every catalog and every roster, and so does compare_profiles of two rosters
\* whose normalized profiles differ only in the order of list values or of
\* fields.
C30_SelfCompareEmpty ==
    (Finished /\ (SelfCompare \/ OrderOnly)) => (pc = "compared" /\ report = <<>>)

====
